---- MODULE Spec2Model ----
(***************************************************************************)
(* A model of the web client of the retrieval-augmented chat application:  *)
(*   - the DataIngestion view (src/unnamed/part_002), a React component    *)
(*     with the state text / isProcessing / result, the prop               *)
(*     selectedPersona and the handler handleIngest;                       *)
(*   - the client API (src/frontend/src/services/api.ts): the request      *)
(*     each function hands to axios;                                       *)
(*   - the persona registry behind /api/personas, as described by the      *)
(*     specification (the backend is not part of the sources);             *)
(*   - the embeddings table (src/unnamed/part_001) and the ingestion       *)
(*     endpoint writing to it, the endpoint as the specification           *)
(*     describes it;                                                       *)
(*   - the ChatInterface view (src/frontend/tailwind.config.js, from line  *)
(*     59), with its request in flight, typewriter interval and timeout.   *)
(*                                                                         *)
(* A string the code inspects character by character (the ingestion text)  *)
(* is a sequence of one-character strings; an optional value (an argument  *)
(* that may be undefined, a JSON field that may be missing) is a sequence  *)
(* of length 0 or 1.                                                       *)
(***************************************************************************)
EXTENDS Integers, Sequences, FiniteSets, TLC

\* ------------------------------------------------------------------ bounds
\* longest text the user types into the textarea
MaxLen == 3
\* number of handleIngest calls in one run
MaxSubmits == 2
\* longest list of turns a caller hands to chatAPI.sendMessage
MaxTurns == 2
\* number of client API calls in one run
MaxApiCalls == 1
\* number of persona registry calls in one run
MaxPersonaOps == 4
\* number of ingestion requests the backend takes in one run
MaxIngestions == 2
\* number of messages the user sends in one conversation
MaxChatSubmits == 2

\* ------------------------------------------------------- optional values
None == <<>>
Some(v) == <<v>>
Opt(S) == {None} \cup {Some(v) : v \in S}

\* a ?? b
Coalesce(a, b) == IF a # None THEN a ELSE b

\* an object literal's field whose value may be undefined: JSON.stringify
\* (axios' request serialisation) drops an undefined field
Field(name, opt) == IF opt = None THEN [k \in {} |-> k] ELSE [k \in {name} |-> opt[1]]

\* ------------------------------------------------------------- the text
Chars == {"a", " "}
IsWhitespace(c) == c = " "
Texts == UNION {[1..n -> Chars] : n \in 0..MaxLen}

RECURSIVE trimStart(_)
trimStart(s) == IF s # <<>> /\ IsWhitespace(Head(s)) THEN trimStart(Tail(s)) ELSE s

RECURSIVE trimEnd(_)
trimEnd(s) ==
    IF s # <<>> /\ IsWhitespace(s[Len(s)]) THEN trimEnd(SubSeq(s, 1, Len(s) - 1)) ELSE s

\* String.prototype.trim
trim(s) == trimEnd(trimStart(s))

\* `${n}` for a non-negative integer
DigitStr == <<"0", "1", "2", "3", "4", "5", "6", "7", "8", "9">>
RECURSIVE NumStr(_)
NumStr(n) == IF n < 10 THEN DigitStr[n + 1] ELSE NumStr(n \div 10) \o DigitStr[(n % 10) + 1]

\* ------------------------------------------------------------ the state
VARIABLES
    text,             \* DataIngestion: useState('')
    isProcessing,     \* DataIngestion: useState(false)
    result,           \* DataIngestion: useState(null): None or Some([success, message])
    selectedPersona,  \* DataIngestion: the prop
    toasts,           \* the toasts shown so far, oldest first
    ingestInflight,   \* the POST /api/ingest requests awaiting their response
    ingestSent,       \* how many POST /api/ingest the view has issued
    requests,         \* SpecApi: the calls made to the client API and what each sent
    registry,         \* the persona ids the backend knows
    history,          \* SpecPersona: the persona calls made, with their responses
    embeddings,       \* the rows of the embeddings table, in the order written
    batches,          \* SpecStore: the ingestion requests the backend has taken
    chatMessage,      \* ChatInterface: message, useState('')
    chatMessages,     \* ChatInterface: messages, useState([])
    isLoading,        \* ChatInterface: useState(false)
    streamingContent, \* ChatInterface: useState('')
    chatInflight,     \* the POST /api/chat requests awaiting their response
    reveals,          \* the typewriter and the timeout started for each response
    chatToasts        \* the toasts ChatInterface has shown, oldest first

viewVars == <<text, isProcessing, result, selectedPersona, toasts, ingestInflight, ingestSent>>
apiVars == <<requests>>
personaVars == <<registry, history>>
storeVars == <<embeddings, batches>>
chatVars == <<chatMessage, chatMessages, isLoading, streamingContent, chatInflight, reveals,
              chatToasts>>
vars == <<viewVars, apiVars, personaVars, storeVars, chatVars>>
\* what a step of the ingestion view leaves alone
notViewVars == <<apiVars, personaVars, storeVars, chatVars>>

Personas == {"default", "doug"}

\* ------------------------------------------------------- the client API
\* apiClient.post / get / delete: the request axios sends
Post(url, data) == [data |-> data, method |-> "POST", url |-> url]
Get(url) == [method |-> "GET", url |-> url]
Delete(url) == [method |-> "DELETE", url |-> url]

\* the number 0.7, as a fraction
Tenths(n) == <<n, 10>>
DefaultMaxTokens == 1000

\* a parameter with the default value 'default'
OrDefault(personaId) == IF personaId = None THEN "default" ELSE personaId[1]

\* mutant: api.chat with another token limit
api_chat_OtherLimit(data) ==
    Post("/api/chat",
         [max_tokens |-> 100, message |-> data.message, temperature |-> Tenths(7),
          use_context |-> TRUE] @@ Field("persona_id", data.persona))

\* api.chat(data), data = {message, persona?}
api_chat(data) ==
    Post("/api/chat",
         [max_tokens |-> DefaultMaxTokens, message |-> data.message,
          temperature |-> Tenths(7), use_context |-> TRUE] @@ Field("persona_id", data.persona))

\* api.ingestData(data), data = {text, persona?}
api_ingestData(data) ==
    Post("/api/ingest", [text |-> data.text] @@ Field("persona_id", data.persona))

\* api.getPersonas()
api_getPersonas == Get("/api/personas")

\* mutant: the create request names the field after the argument
api_createPersona_AlsoSendsName(data) ==
    Post("/api/personas", [name |-> data.name, persona_id |-> data.name])

api_createPersona_SendsName(data) == Post("/api/personas", [name |-> data.name])

\* api.createPersona(data), data = {name}
api_createPersona(data) == Post("/api/personas", [persona_id |-> data.name])

\* api.deletePersona(personaId)
api_deletePersona(personaId) == Delete("/api/personas/" \o personaId)

\* mutant: only the latest turn is sent
chatAPI_sendMessage_LatestOnly(messages, personaId) ==
    Post("/api/chat",
         [max_tokens |-> DefaultMaxTokens,
          messages |-> IF messages = <<>> THEN <<>> ELSE <<messages[Len(messages)]>>,
          persona_id |-> OrDefault(personaId), temperature |-> Tenths(7),
          use_context |-> TRUE])

\* chatAPI.sendMessage(messages, personaId = 'default')
chatAPI_sendMessage(messages, personaId) ==
    Post("/api/chat",
         [max_tokens |-> DefaultMaxTokens, messages |-> messages,
          persona_id |-> OrDefault(personaId), temperature |-> Tenths(7),
          use_context |-> TRUE])

\* ingestionAPI.ingestText(text, personaId = 'default', metadata?)
ingestionAPI_ingestText(txt, personaId, metadata) ==
    Post("/api/ingest",
         [persona_id |-> OrDefault(personaId), text |-> txt] @@ Field("metadata", metadata))

\* personaAPI.listPersonas()
personaAPI_listPersonas == Get("/api/personas")

\* personaAPI.deletePersona(personaId)
personaAPI_deletePersona(personaId) == Delete("/api/personas/" \o personaId)

\* ------------------------------------------------ the DataIngestion view
ValidationToast == [kind |-> "error", message |-> "Please enter some text to ingest"]
SuccessToast == [kind |-> "success", message |-> "Data ingested successfully!"]
ErrorToast(m) == [kind |-> "error", message |-> m]

\* the disabled attribute of the four controls, and whether the X is rendered
\* mutant: the textarea stays editable while Processing
TextareaDisabled_Never == FALSE
TextareaDisabled == isProcessing
ClearIconRendered == text # <<>>
ClearIconDisabled == isProcessing
ClearTextDisabled == text = <<>> \/ isProcessing
\* mutant: the Ingest button tests the text without trimming it
IngestDisabled_NoTrim == isProcessing \/ text = <<>>
\* mutant: the Ingest button forgets isProcessing
IngestDisabled_IgnoresProcessing == trim(text) = <<>>
IngestDisabled == isProcessing \/ trim(text) = <<>>

\* handleIngest calls made so far: each has shown its toast or is in flight
Calls == Len(toasts) + Cardinality(ingestInflight)

\* the responses POST /api/ingest can resolve with (response.data)
ChunkCounts == {0, 2}
ServerMessages == {"", "Stored"}
IngestResponses ==
    [chunksCreated : Opt({0, 5}), chunks_processed : Opt(ChunkCounts),
     message : Opt(ServerMessages)]

\* the errors it can reject with: no response at all, or a response whose
\* body may carry a detail, a message, both or neither
ErrorDetails == {"", "Embedding provider failed"}
ErrorMessages == {"Bad Gateway"}
IngestErrors ==
    {[response |-> None]} \cup
    {[response |-> Some([detail |-> d, message |-> m])] :
        d \in Opt(ErrorDetails), m \in Opt(ErrorMessages)}

\* error.response?.data?.detail
errorDetail(error) == IF error.response = None THEN None ELSE error.response[1].detail

\* x || fallback, for an optional string x
OrElse(x, fallback) == IF x # None /\ x[1] # "" THEN x[1] ELSE fallback

\* mutant: handleIngest without its validation
handleIngest_NoValidation ==
    /\ UNCHANGED notViewVars
    /\ isProcessing' = TRUE
    /\ result' = None
    /\ ingestSent' = ingestSent + 1
    /\ ingestInflight' = ingestInflight \cup
           {[id |-> ingestSent + 1,
             request |-> api_ingestData([persona |-> Some(selectedPersona),
                                         text |-> trim(text)])]}
    /\ UNCHANGED <<text, selectedPersona, toasts>>

\* mutant: the request carries the text as typed
handleIngest_Untrimmed ==
    IF trim(text) = <<>>
    THEN /\ toasts' = Append(toasts, ValidationToast)
         /\ UNCHANGED <<text, isProcessing, result, selectedPersona, ingestInflight, ingestSent>>
         /\ UNCHANGED notViewVars
    ELSE /\ UNCHANGED notViewVars
         /\ isProcessing' = TRUE
         /\ result' = None
         /\ ingestSent' = ingestSent + 1
         /\ ingestInflight' = ingestInflight \cup
                {[id |-> ingestSent + 1,
                  request |-> api_ingestData([persona |-> Some(selectedPersona),
                                              text |-> text])]}
         /\ UNCHANGED <<text, selectedPersona, toasts>>

\* mutant: an accepted submit leaves the previous result in place
handleIngest_KeepsResult ==
    IF trim(text) = <<>>
    THEN /\ toasts' = Append(toasts, ValidationToast)
         /\ UNCHANGED <<text, isProcessing, result, selectedPersona, ingestInflight, ingestSent>>
         /\ UNCHANGED notViewVars
    ELSE /\ UNCHANGED notViewVars
         /\ isProcessing' = TRUE
         /\ ingestSent' = ingestSent + 1
         /\ ingestInflight' = ingestInflight \cup
                {[id |-> ingestSent + 1,
                  request |-> api_ingestData([persona |-> Some(selectedPersona),
                                              text |-> trim(text)])]}
         /\ UNCHANGED <<text, result, selectedPersona, toasts>>

\* handleIngest up to its await: the validation, the two state updates and
\* the request
handleIngest ==
    IF trim(text) = <<>>
    THEN /\ toasts' = Append(toasts, ValidationToast)
         /\ UNCHANGED <<text, isProcessing, result, selectedPersona, ingestInflight, ingestSent>>
         /\ UNCHANGED notViewVars
    ELSE /\ UNCHANGED notViewVars
         /\ isProcessing' = TRUE
         /\ result' = None
         /\ ingestSent' = ingestSent + 1
         /\ ingestInflight' = ingestInflight \cup
                {[id |-> ingestSent + 1,
                  request |-> api_ingestData([persona |-> Some(selectedPersona),
                                              text |-> trim(text)])]}
         /\ UNCHANGED <<text, selectedPersona, toasts>>

\* mutant: a success leaves the text in place
IngestResolve_KeepsText(r, data) ==
    /\ r \in ingestInflight
    /\ result' = Some([message |-> OrElse(data.message, "Successfully processed"), success |-> TRUE])
    /\ toasts' = Append(toasts, SuccessToast)
    /\ isProcessing' = FALSE
    /\ ingestInflight' = ingestInflight \ {r}
    /\ UNCHANGED <<text, selectedPersona, ingestSent>>
    /\ UNCHANGED notViewVars

\* mutant: the chunk count is chosen with || instead of ??
IngestResolve_ZeroFallsThrough(r, data) ==
    /\ r \in ingestInflight
    /\ LET truthy(n) == n # None /\ n[1] # 0
           chunksProcessed == IF truthy(data.chunks_processed) THEN data.chunks_processed[1]
                              ELSE IF truthy(data.chunksCreated) THEN data.chunksCreated[1]
                              ELSE 0
       IN result' = Some([message |-> OrElse(data.message,
                              "Successfully processed " \o NumStr(chunksProcessed)
                                  \o " text chunks into embeddings"),
                          success |-> TRUE])
    /\ toasts' = Append(toasts, SuccessToast)
    /\ text' = <<>>
    /\ isProcessing' = FALSE
    /\ ingestInflight' = ingestInflight \ {r}
    /\ UNCHANGED <<selectedPersona, ingestSent>>
    /\ UNCHANGED notViewVars

\* handleIngest after its await resolved with response.data = data
IngestResolve(r, data) ==
    /\ r \in ingestInflight
    /\ LET chunksProcessed == Coalesce(data.chunks_processed, Coalesce(data.chunksCreated, Some(0)))[1]
           serverMessage == data.message
       IN result' = Some([message |-> OrElse(serverMessage,
                              "Successfully processed " \o NumStr(chunksProcessed)
                                  \o " text chunks into embeddings"),
                          success |-> TRUE])
    /\ toasts' = Append(toasts, SuccessToast)
    /\ text' = <<>>
    /\ isProcessing' = FALSE
    /\ ingestInflight' = ingestInflight \ {r}
    /\ UNCHANGED <<selectedPersona, ingestSent>>
    /\ UNCHANGED notViewVars

\* mutant: no finally block, isProcessing stays set after a failure
IngestReject_NoFinally(r, error) ==
    /\ r \in ingestInflight
    /\ LET errorMessage == OrElse(errorDetail(error), "Failed to ingest data")
       IN /\ result' = Some([message |-> errorMessage, success |-> FALSE])
          /\ toasts' = Append(toasts, ErrorToast(errorMessage))
    /\ ingestInflight' = ingestInflight \ {r}
    /\ UNCHANGED <<text, isProcessing, selectedPersona, ingestSent>>
    /\ UNCHANGED notViewVars

\* mutant: a failure clears the text as a success does
IngestReject_ClearsText(r, error) ==
    /\ r \in ingestInflight
    /\ LET errorMessage == OrElse(errorDetail(error), "Failed to ingest data")
       IN /\ result' = Some([message |-> errorMessage, success |-> FALSE])
          /\ toasts' = Append(toasts, ErrorToast(errorMessage))
    /\ text' = <<>>
    /\ isProcessing' = FALSE
    /\ ingestInflight' = ingestInflight \ {r}
    /\ UNCHANGED <<selectedPersona, ingestSent>>
    /\ UNCHANGED notViewVars

\* mutant: a failed request is sent once more before the failure is shown
IngestReject_Retries(r, error) ==
    /\ r \in ingestInflight
    /\ IF ingestSent < MaxSubmits + 1
       THEN /\ ingestSent' = ingestSent + 1
            /\ ingestInflight' = (ingestInflight \ {r}) \cup
                   {[id |-> ingestSent + 1, request |-> r.request]}
            /\ UNCHANGED <<text, isProcessing, result, selectedPersona, toasts>>
       ELSE /\ result' = Some([message |-> "Failed to ingest data", success |-> FALSE])
            /\ toasts' = Append(toasts, ErrorToast("Failed to ingest data"))
            /\ isProcessing' = FALSE
            /\ ingestInflight' = ingestInflight \ {r}
            /\ UNCHANGED <<text, selectedPersona, ingestSent>>
    /\ UNCHANGED notViewVars

\* mutant: the failure text falls back on the body's message field
IngestReject_UsesMessage(r, error) ==
    /\ r \in ingestInflight
    /\ LET body == IF error.response = None THEN None ELSE error.response[1].message
           errorMessage == OrElse(errorDetail(error), OrElse(body, "Failed to ingest data"))
       IN /\ result' = Some([message |-> errorMessage, success |-> FALSE])
          /\ toasts' = Append(toasts, ErrorToast(errorMessage))
    /\ isProcessing' = FALSE
    /\ ingestInflight' = ingestInflight \ {r}
    /\ UNCHANGED <<text, selectedPersona, ingestSent>>
    /\ UNCHANGED notViewVars

\* handleIngest after its await rejected with error
IngestReject(r, error) ==
    /\ r \in ingestInflight
    /\ LET errorMessage == OrElse(errorDetail(error), "Failed to ingest data")
       IN /\ result' = Some([message |-> errorMessage, success |-> FALSE])
          /\ toasts' = Append(toasts, ErrorToast(errorMessage))
    /\ isProcessing' = FALSE
    /\ ingestInflight' = ingestInflight \ {r}
    /\ UNCHANGED <<text, selectedPersona, ingestSent>>
    /\ UNCHANGED notViewVars

\* the textarea's onChange
OnTextChange(t) ==
    /\ ~TextareaDisabled
    /\ text' = t
    /\ UNCHANGED <<isProcessing, result, selectedPersona, toasts, ingestInflight, ingestSent>>
    /\ UNCHANGED notViewVars

\* the X button's onClick
ClickClearIcon ==
    /\ ClearIconRendered /\ ~ClearIconDisabled
    /\ text' = <<>>
    /\ UNCHANGED <<isProcessing, result, selectedPersona, toasts, ingestInflight, ingestSent>>
    /\ UNCHANGED notViewVars

\* the Clear Text button's onClick
ClickClearText ==
    /\ ~ClearTextDisabled
    /\ text' = <<>>
    /\ UNCHANGED <<isProcessing, result, selectedPersona, toasts, ingestInflight, ingestSent>>
    /\ UNCHANGED notViewVars

\* the Ingest Data button's onClick
ClickIngest ==
    /\ ~IngestDisabled
    /\ Calls < MaxSubmits
    /\ handleIngest

\* handleIngest called whatever the button's disabled attribute says
CallHandleIngest ==
    /\ Calls < MaxSubmits
    /\ handleIngest

\* the parent renders the view with another persona
SelectPersona(p) ==
    /\ p # selectedPersona
    /\ selectedPersona' = p
    /\ UNCHANGED <<text, isProcessing, result, toasts, ingestInflight, ingestSent>>
    /\ UNCHANGED notViewVars

\* the response of a pending request arrives
Resolve == \E r \in ingestInflight : \E data \in IngestResponses : IngestResolve(r, data)

\* a pending request fails
Reject == \E r \in ingestInflight : \E error \in IngestErrors : IngestReject(r, error)

IngestSettle == Resolve \/ Reject

UserAction ==
    \/ \E t \in Texts : OnTextChange(t)
    \/ ClickClearIcon
    \/ ClickClearText
    \/ \E p \in Personas : SelectPersona(p)

Init ==
    /\ text = <<>>
    /\ isProcessing = FALSE
    /\ result = None
    /\ selectedPersona \in Personas
    /\ toasts = <<>>
    /\ ingestInflight = {}
    /\ ingestSent = 0
    /\ requests = <<>>
    /\ registry = {}
    /\ history = <<>>
    /\ embeddings = <<>>
    /\ batches = <<>>
    /\ chatMessage = <<>>
    /\ chatMessages = <<>>
    /\ isLoading = FALSE
    /\ streamingContent = <<>>
    /\ chatInflight = {}
    /\ reveals = {}
    /\ chatToasts = <<>>

\* the view as the user drives it
Next ==
    \/ UserAction
    \/ ClickIngest
    \/ Resolve
    \/ Reject

Spec == Init /\ [][Next]_vars

\* every request the view awaits is eventually answered or fails
FairSpec == Spec /\ WF_vars(IngestSettle)

\* the handler on its own: handleIngest may be called directly
NextHandler ==
    \/ UserAction
    \/ CallHandleIngest
    \/ Resolve
    \/ Reject

SpecHandler == Init /\ [][NextHandler]_vars

\* ------------------------------------------------- the ingestion claims
LastToast == toasts[Len(toasts)]
\* a submit completes: the view leaves Processing
Completes == isProcessing /\ ~isProcessing'
TextEdited == (\E t \in Texts : OnTextChange(t)) \/ ClickClearIcon \/ ClickClearText

\* C1: a submit with non-blank text takes the view from Idle to Processing,
\* and, the request being answered or failing, every Processing state is
\* followed by an Idle state with a result that is a success or a failure.
C1_SubmitThenSettled ==
    /\ [][ClickIngest => (trim(text) # <<>> /\ ~isProcessing /\ isProcessing')]_vars
    /\ isProcessing ~> (~isProcessing /\ result # None /\ result[1].success \in BOOLEAN)

C1_Witness == ingestSent > 0 /\ ~isProcessing /\ result # None

\* C2: while Processing the textarea, both Clear controls and the Ingest
\* button are disabled, no submit is enabled, and at no time is more than
\* one ingest request of the view in flight.
C2_DisabledWhileProcessing ==
    /\ isProcessing =>
        /\ TextareaDisabled /\ ClearIconDisabled /\ ClearTextDisabled /\ IngestDisabled
        /\ ~ENABLED ClickIngest
        /\ ~ENABLED TextEdited
    /\ Cardinality(ingestInflight) <= 1

C2_Witness == isProcessing /\ Cardinality(ingestInflight) = 1 /\ ingestSent = MaxSubmits

\* C3 as stated: the completion of a submit, successful or not, leaves the
\* text as it was.
C3_CompletionKeepsText == [][Completes => text' = text]_vars

\* C3 amended: the text changes only by a user edit (the textarea or a Clear
\* control, all disabled while Processing) or by the completion of a
\* successful submit, which empties it; a failed submit leaves it as it was.
C3_TextClearedByUserOrSuccess ==
    [][/\ (Completes /\ result'[1].success) => text' = <<>>
       /\ (Completes /\ ~result'[1].success) => text' = text
       /\ text' # text => (TextEdited \/ (Completes /\ result'[1].success))]_vars

C3_Witness ==
    /\ ~isProcessing /\ result # None /\ result[1].success
    /\ text = <<>> /\ LastToast = SuccessToast

\* C4: handleIngest called with an empty or whitespace-only text shows the
\* validation error and nothing else: no request is sent, the view stays
\* Idle, text and result are unchanged.
C4_BlankTextRejected ==
    [][(CallHandleIngest /\ trim(text) = <<>>) =>
        /\ toasts' = Append(toasts, ValidationToast)
        /\ ~isProcessing /\ ~isProcessing'
        /\ UNCHANGED <<text, result, ingestInflight, ingestSent>>]_vars

C4_Witness ==
    /\ toasts # <<>> /\ LastToast = ValidationToast
    /\ text # <<>> /\ trim(text) = <<>>
    /\ ingestSent = 0 /\ ~isProcessing

\* C5: a failed ingest request takes the view back to Idle with a failure
\* result, shows exactly one error toast, with the result's message, and
\* leaves the text as it was.
C5_FailureRollsBack ==
    [][Reject =>
        /\ isProcessing /\ ~isProcessing'
        /\ result' # None /\ ~result'[1].success
        /\ toasts' = Append(toasts, ErrorToast(result'[1].message))
        /\ text' = text /\ trim(text') # <<>>]_vars

C5_Witness ==
    /\ ~isProcessing /\ result # None /\ ~result[1].success
    /\ toasts # <<>> /\ LastToast.kind = "error"
    /\ trim(text) # <<>>

\* C6: a request is sent only by an accepted submit, which sends exactly one
\* POST /api/ingest; a failure sends none and leaves none in flight.
C6_NoRetry ==
    [][/\ ClickIngest =>
            /\ ingestSent' = ingestSent + 1
            /\ \E r \in ingestInflight' :
                /\ ingestInflight' = ingestInflight \cup {r} /\ r \notin ingestInflight
                /\ r.request.method = "POST" /\ r.request.url = "/api/ingest"
       /\ ingestSent' # ingestSent => ClickIngest
       /\ ingestInflight' \subseteq ingestInflight \/ ClickIngest
       /\ Reject => (ingestSent' = ingestSent /\ ingestInflight' = {})]_vars

C6_Witness ==
    /\ result # None /\ ~result[1].success
    /\ ingestSent = 1 /\ ingestInflight = {} /\ ~isProcessing

\* ------------------------------------------------ calls of the client API
notApiVars == <<viewVars, personaVars, storeVars, chatVars>>

Roles == {"user", "assistant"}
ChatTexts == {"hi", "and then?"}
Turns == [content : ChatTexts, role : Roles]
Histories == UNION {[1..n -> Turns] : n \in 0..MaxTurns}
Metadatas == {[source |-> "notes"]}

\* a call is recorded with its arguments as the caller gave them and the
\* request it sent

CallChat(message, persona) ==
    /\ Len(requests) < MaxApiCalls
    /\ requests' = Append(requests,
            [fn |-> "api.chat", message |-> message, persona |-> persona,
             request |-> api_chat([message |-> message, persona |-> persona])])
    /\ UNCHANGED notApiVars

CallIngestData(txt, persona) ==
    /\ Len(requests) < MaxApiCalls
    /\ requests' = Append(requests,
            [fn |-> "api.ingestData", persona |-> persona,
             request |-> api_ingestData([persona |-> persona, text |-> txt]), text |-> txt])
    /\ UNCHANGED notApiVars

CallSendMessage(messages, persona) ==
    /\ Len(requests) < MaxApiCalls
    /\ requests' = Append(requests,
            [fn |-> "chatAPI.sendMessage", messages |-> messages, persona |-> persona,
             request |-> chatAPI_sendMessage(messages, persona)])
    /\ UNCHANGED notApiVars

CallIngestText(txt, persona, metadata) ==
    /\ Len(requests) < MaxApiCalls
    /\ requests' = Append(requests,
            [fn |-> "ingestionAPI.ingestText", metadata |-> metadata, persona |-> persona,
             request |-> ingestionAPI_ingestText(txt, persona, metadata), text |-> txt])
    /\ UNCHANGED notApiVars

NextApi ==
    \/ \E m \in ChatTexts, p \in Opt(Personas) : CallChat(m, p)
    \/ \E t \in Texts, p \in Opt(Personas) : CallIngestData(t, p)
    \/ \E h \in Histories, p \in Opt(Personas) : CallSendMessage(h, p)
    \/ \E t \in Texts, p \in Opt(Personas), m \in Opt(Metadatas) : CallIngestText(t, p, m)

SpecApi == Init /\ [][NextApi]_vars

ChatCalls == {i \in 1..Len(requests) : requests[i].request.url = "/api/chat"}
IngestCalls == {i \in 1..Len(requests) : requests[i].request.url = "/api/ingest"}

\* C7 as stated: every chat request carries the list of turns.
C7_EveryChatCarriesTurns ==
    \A i \in ChatCalls : "messages" \in DOMAIN requests[i].request.data

\* C7 amended: every chat request sent by chatAPI.sendMessage carries the
\* caller's turns, all of them and in their order, each a {role, content},
\* and no single message; a chat request sent by api.chat carries the single
\* message and no list of turns.
C7_SendMessageCarriesTurns ==
    \A i \in ChatCalls :
        LET call == requests[i]
            data == call.request.data
        IN /\ call.request.method = "POST"
           /\ call.fn \in {"chatAPI.sendMessage", "api.chat"}
           /\ call.fn = "chatAPI.sendMessage" =>
                /\ "messages" \in DOMAIN data /\ "message" \notin DOMAIN data
                /\ data.messages = call.messages
                /\ \A k \in 1..Len(data.messages) : DOMAIN data.messages[k] = {"role", "content"}
           /\ call.fn = "api.chat" =>
                /\ "messages" \notin DOMAIN data
                /\ data.message = call.message

C7_Witness ==
    \E i \in ChatCalls :
        /\ requests[i].fn = "chatAPI.sendMessage"
        /\ Len(requests[i].request.data.messages) = MaxTurns
        /\ requests[i].request.data.messages[1] # requests[i].request.data.messages[MaxTurns]

\* C8: every chat request carries temperature 0.7, max_tokens 1000 and
\* use_context true, whatever the caller passed.
C8_FixedGenerationDefaults ==
    \A i \in ChatCalls :
        LET data == requests[i].request.data
        IN /\ data.temperature = Tenths(7)
           /\ data.max_tokens = 1000
           /\ data.use_context = TRUE

C8_Witness ==
    \E i \in ChatCalls :
        /\ requests[i].fn = "api.chat"
        /\ requests[i].persona = Some("doug")
        /\ requests[i].request.data.max_tokens = 1000

\* C9: every chat request and every ingest request carries a persona_id:
\* the caller's persona when one is given, "default" when none is.
C9_PersonaIdDefaults ==
    \A i \in ChatCalls \cup IngestCalls :
        LET call == requests[i]
            data == call.request.data
        IN /\ "persona_id" \in DOMAIN data
           /\ data.persona_id = IF call.persona = None THEN "default" ELSE call.persona[1]

\* --------------------------------------------------- the persona registry
notPersonaVars == <<viewVars, apiVars, storeVars, chatVars>>

PersonaIds == {"ada", "doug"}

\* the backend's routes for /api/personas: the outcomes of a request on the
\* registry reg. A duplicate create is refused or ignored; a delete of an
\* unknown id is refused.
Serve(req, reg) ==
    LET answer(status, data, after) == [data |-> data, registry |-> after, status |-> status]
        deleted == {p \in PersonaIds : req.url = "/api/personas/" \o p}
    IN IF req.method = "GET" /\ req.url = "/api/personas"
       THEN {answer(200, {[id |-> p] : p \in reg}, reg)}
       ELSE IF req.method = "POST" /\ req.url = "/api/personas"
       THEN IF "persona_id" \notin DOMAIN req.data
            THEN {answer(422, {}, reg)}
            ELSE IF req.data.persona_id \in reg
            THEN {answer(409, {}, reg), answer(200, {[id |-> req.data.persona_id]}, reg)}
            ELSE {answer(200, {[id |-> req.data.persona_id]}, reg \cup {req.data.persona_id})}
       ELSE IF req.method = "DELETE" /\ deleted # {}
       THEN IF deleted \subseteq reg
            THEN {answer(200, {}, reg \ deleted)}
            ELSE {answer(404, {}, reg)}
       ELSE {answer(404, {}, reg)}

\* a call of the client API, awaited: the request is served and the call
\* is recorded with the request sent, the response's status and, for a list,
\* the ids returned
Exchange(fn, op, id, req) ==
    /\ \E out \in Serve(req, registry) :
        /\ registry' = out.registry
        /\ history' = Append(history,
                [fn |-> fn, id |-> id, ids |-> {x.id : x \in out.data}, op |-> op,
                 request |-> req, status |-> out.status])
    /\ UNCHANGED notPersonaVars

CallCreatePersona(name) ==
    /\ Len(history) < MaxPersonaOps
    /\ Exchange("api.createPersona", "create", name, api_createPersona([name |-> name]))

CallGetPersonas ==
    /\ Len(history) < MaxPersonaOps
    /\ Exchange("api.getPersonas", "list", "", api_getPersonas)

CallListPersonas ==
    /\ Len(history) < MaxPersonaOps
    /\ Exchange("personaAPI.listPersonas", "list", "", personaAPI_listPersonas)

CallDeletePersona(personaId) ==
    /\ Len(history) < MaxPersonaOps
    /\ Exchange("api.deletePersona", "delete", personaId, api_deletePersona(personaId))

CallPersonaAPIDelete(personaId) ==
    /\ Len(history) < MaxPersonaOps
    /\ Exchange("personaAPI.deletePersona", "delete", personaId,
                personaAPI_deletePersona(personaId))

NextPersona ==
    \/ \E name \in PersonaIds : CallCreatePersona(name)
    \/ CallGetPersonas
    \/ CallListPersonas
    \/ \E personaId \in PersonaIds : CallDeletePersona(personaId)
    \/ \E personaId \in PersonaIds : CallPersonaAPIDelete(personaId)

SpecPersona == Init /\ [][NextPersona]_vars

\* the calls before the i-th that create or delete p
Changes(i, p) == {j \in 1..(i - 1) : history[j].op \in {"create", "delete"} /\ history[j].id = p}
Latest(S) == CHOOSE j \in S : \A k \in S : k <= j

CreateCalls == {i \in 1..Len(history) : history[i].fn = "api.createPersona"}

C11_CreateSendsPersonaId ==
    \A i \in CreateCalls :
        LET request == history[i].request
        IN /\ request.method = "POST"
           /\ request.url = "/api/personas"
           /\ DOMAIN request.data = {"persona_id"}
           /\ request.data.persona_id = history[i].id

C11_Witness ==
    \E i \in CreateCalls :
        /\ history[i].id = "ada"
        /\ history[i].request.data = [persona_id |-> "ada"]
        /\ history[i].status = 200

\* ------------------------------------------------- the embeddings table
notStoreVars == <<viewVars, apiVars, personaVars, chatVars>>

\* CREATE TABLE embeddings: the columns, and those declared NOT NULL. The
\* table declares no key: a row is accepted whatever ids are already stored.
Columns == {"id", "text", "embedding", "metadata", "created_at", "persona_id", "chunk_index"}
NotNullColumns == {"id", "text", "persona_id"}
Accepts(row) == DOMAIN row \subseteq Columns /\ NotNullColumns \subseteq DOMAIN row

\* the texts the ingestion endpoint receives: the client sends them trimmed
IngestTexts == {t \in Texts : trim(t) = t}

\* fixed-size character windows
ChunkSize == 2
RECURSIVE chunk(_)
chunk(t) ==
    IF Len(t) <= ChunkSize THEN <<t>>
    ELSE <<SubSeq(t, 1, ChunkSize)>> \o chunk(SubSeq(t, ChunkSize + 1, Len(t)))

\* the id of a chunk: the index alone, which repeats from batch to batch
ChunkId_IndexOnly(token, index) == "chunk-" \o NumStr(index)

\* the id of a chunk: the token of its ingestion request and its index
ChunkId(token, index) == token \o "-" \o NumStr(index)

\* POST /api/ingest arrives: an empty text is a ValidationError, any other
\* text is chunked and the request gets a token of its own
PostIngest(t, p) ==
    /\ Len(batches) < MaxIngestions
    /\ batches' = Append(batches,
            [chunks |-> IF t = <<>> THEN <<>> ELSE chunk(t),
             persona_id |-> p,
             status |-> IF t = <<>> THEN "ValidationError" ELSE "writing",
             token |-> "batch" \o NumStr(Len(batches) + 1),
             written |-> 0])
    /\ UNCHANGED <<embeddings, notStoreVars>>

\* the next chunk of request b is embedded and its row is appended
WriteRow(b) ==
    LET batch == batches[b]
        row == [chunk_index |-> batch.written,
                created_at |-> Len(embeddings) + 1,
                embedding |-> <<"embedding of", batch.chunks[batch.written + 1]>>,
                id |-> ChunkId(batch.token, batch.written),
                persona_id |-> batch.persona_id,
                text |-> batch.chunks[batch.written + 1]]
    IN /\ batch.status = "writing"
       /\ batch.written < Len(batch.chunks)
       /\ Accepts(row)
       /\ embeddings' = Append(embeddings, row)
       /\ batches' = [batches EXCEPT ![b].written = @ + 1]
       /\ UNCHANGED notStoreVars

\* every chunk of request b is written: { chunks_processed, message }
RespondIngest(b) ==
    /\ batches[b].status = "writing"
    /\ batches[b].written = Len(batches[b].chunks)
    /\ batches' = [batches EXCEPT ![b].status = "done"]
    /\ UNCHANGED <<embeddings, notStoreVars>>

\* the embedding call or the write of the next chunk fails: the request
\* ends with ProviderError or StorageError, the rows already written stay
FailIngest(b) ==
    /\ batches[b].status = "writing"
    /\ batches[b].written < Len(batches[b].chunks)
    /\ \E e \in {"ProviderError", "StorageError"} :
            batches' = [batches EXCEPT ![b].status = e]
    /\ UNCHANGED <<embeddings, notStoreVars>>

NextStore ==
    \/ \E t \in IngestTexts, p \in Personas : PostIngest(t, p)
    \/ \E b \in 1..Len(batches) : WriteRow(b)
    \/ \E b \in 1..Len(batches) : RespondIngest(b)
    \/ \E b \in 1..Len(batches) : FailIngest(b)

SpecStore == Init /\ [][NextStore]_vars

notChatVars == <<viewVars, apiVars, personaVars, storeVars>>

\* what the user types into the input
ChatInputs == {<<>>, <<" ">>, <<"a">>, <<"a", " ">>}
\* the texts the quick-action buttons put into the input, each one piece
QuickPrompts ==
    {<<"Tell me about yourself">>, <<"What insights do you have?">>,
     <<"Help me solve a problem">>}

\* the bodies a successful POST /api/chat may answer with
ReplyTexts == {<<>>, <<"o", "k">>}
ChatResponses == [message : Opt(ReplyTexts), response : Opt(ReplyTexts)]

ChatErrorToast == [kind |-> "error", message |-> "Failed to send message. Please try again."]

\* the disabled attributes of the input, the Send button and the others
InputDisabled == isLoading
SendDisabled == trim(chatMessage) = <<>> \/ isLoading
QuickActionDisabled == isLoading

\* nextMessages.map(m => ({ role: m.role, content: m.content }))
Payload(msgs) == [k \in 1..Len(msgs) |-> [content |-> msgs[k].content, role |-> msgs[k].role]]

UserMessages == {k \in 1..Len(chatMessages) : chatMessages[k].role = "user"}

\* handleSubmit up to its await: a blank message or a request in progress
\* returns at once; otherwise the user's message is appended, the input is
\* cleared and the whole conversation is posted
handleSubmit ==
    IF trim(chatMessage) = <<>> \/ isLoading
    THEN UNCHANGED vars
    ELSE /\ chatMessages' = Append(chatMessages, [content |-> trim(chatMessage), role |-> "user"])
         /\ chatMessage' = <<>>
         /\ isLoading' = TRUE
         /\ chatInflight' = chatInflight \cup
                {[id |-> Len(chatMessages) + 1,
                  request |-> chatAPI_sendMessage(Payload(chatMessages'), Some("default"))]}
         /\ UNCHANGED <<streamingContent, reveals, chatToasts, notChatVars>>

\* handleSubmit after its await, the request fulfilled with body data: an
\* empty assistant message is appended, the typewriter and the timeout for
\* responseText are started, and finally isLoading is reset
ChatResolve(r, data) ==
    LET responseText == Coalesce(data.message, Coalesce(data.response, Some(<<>>)))[1]
    IN /\ chatInflight' = chatInflight \ {r}
       /\ chatMessages' = Append(chatMessages, [content |-> <<>>, role |-> "assistant"])
       /\ streamingContent' = <<>>
       /\ reveals' = reveals \cup
                {[shown |-> 0, target |-> Len(chatMessages) + 1, text |-> responseText,
                  timedOut |-> FALSE]}
       /\ isLoading' = FALSE
       /\ UNCHANGED <<chatMessage, chatToasts, notChatVars>>

\* handleSubmit after its await, the request rejected: the error toast, and
\* finally isLoading is reset
ChatReject(r) ==
    /\ chatInflight' = chatInflight \ {r}
    /\ chatToasts' = Append(chatToasts, ChatErrorToast)
    /\ isLoading' = FALSE
    /\ UNCHANGED <<chatMessage, chatMessages, streamingContent, reveals, notChatVars>>

\* typewriterEffect's interval fires with i < text.length
TypewriterTick(v) ==
    /\ v.shown < Len(v.text)
    /\ streamingContent' = SubSeq(v.text, 1, v.shown + 1)
    /\ reveals' = (reveals \ {v}) \cup {[v EXCEPT !.shown = @ + 1]}
    /\ UNCHANGED <<chatMessage, chatMessages, isLoading, chatInflight, chatToasts, notChatVars>>

\* the timeout set next to the typewriter fires: the assistant message gets
\* its content. A timer fires no earlier than its delay, and the interval's
\* first firing, due earlier, comes before the timeout.
RevealTimeout(v) ==
    /\ ~v.timedOut
    /\ v.shown > 0 \/ v.text = <<>>
    /\ chatMessages' = [chatMessages EXCEPT ![v.target].content = v.text]
    /\ streamingContent' = <<>>
    /\ reveals' = (reveals \ {v}) \cup {[v EXCEPT !.timedOut = TRUE]}
    /\ UNCHANGED <<chatMessage, isLoading, chatInflight, chatToasts, notChatVars>>

\* the user types into the input
OnMessageChange(t) ==
    /\ ~InputDisabled
    /\ chatMessage' = t
    /\ UNCHANGED <<chatMessages, isLoading, streamingContent, chatInflight, reveals, chatToasts,
                   notChatVars>>

\* the user clicks one of the quick-action buttons
ClickQuickAction(prompt) ==
    /\ ~QuickActionDisabled
    /\ chatMessage' = prompt
    /\ UNCHANGED <<chatMessages, isLoading, streamingContent, chatInflight, reveals, chatToasts,
                   notChatVars>>

\* the user clicks Send
ClickSend ==
    /\ ~SendDisabled
    /\ Cardinality(UserMessages) < MaxChatSubmits
    /\ handleSubmit

\* the user presses Enter in the input: handleKeyDown calls handleSubmit
PressEnter ==
    /\ ~InputDisabled
    /\ Cardinality(UserMessages) < MaxChatSubmits
    /\ handleSubmit

ChatSucceeds == \E r \in chatInflight, data \in ChatResponses : ChatResolve(r, data)
ChatFails == \E r \in chatInflight : ChatReject(r)
Typewriter == \E v \in reveals : TypewriterTick(v)
Timeout == \E v \in reveals : RevealTimeout(v)

NextChat ==
    \/ \E t \in ChatInputs : OnMessageChange(t)
    \/ \E prompt \in QuickPrompts : ClickQuickAction(prompt)
    \/ ClickSend
    \/ PressEnter
    \/ ChatSucceeds
    \/ ChatFails
    \/ Typewriter
    \/ Timeout

SpecChat == Init /\ [][NextChat]_vars

\* the phases of the chat view
Sending == isLoading
StreamingReveal == \E v \in reveals : ~v.timedOut
Idle == ~Sending /\ ~StreamingReveal

SubmitAccepted == ~isLoading /\ isLoading'
Begun == {v \in reveals' : \A w \in reveals : w.target # v.target}
RevealBegins == Begun # {}

\* the parts of C13
C13_InputDisabledWhileSending == Sending => InputDisabled /\ SendDisabled /\ QuickActionDisabled
C13_OneRequestInFlight == Cardinality(chatInflight) <= 1 /\ (chatInflight # {} <=> Sending)
C13_SubmitOnlyWhenIdle == SubmitAccepted => Idle /\ Sending' /\ ~StreamingReveal'
C13_SendingEnds ==
    Sending /\ ~Sending' =>
        \/ StreamingReveal' /\ RevealBegins /\ chatToasts' = chatToasts
        \/ Idle' /\ chatToasts' = Append(chatToasts, ChatErrorToast)
C13_RevealEnds == StreamingReveal /\ ~StreamingReveal' => Idle'
C13_RevealAfterResponse ==
    RevealBegins =>
        /\ chatInflight # {} /\ chatInflight' = {}
        /\ \A v \in Begun : v.shown = 0 /\ chatMessages'[v.target].content = <<>>

\* C13: the chat view goes from Idle to Sending on a submit, from Sending to
\* StreamingReveal and then Idle on success, or from Sending to Idle with an
\* error toast on failure; the input is disabled while Sending, at most one
\* chat request is in flight, and a reveal begins only when the response
\* has been received.
C13_ChatPhases ==
    /\ [](C13_InputDisabledWhileSending /\ C13_OneRequestInFlight)
    /\ [][/\ C13_SubmitOnlyWhenIdle
          /\ C13_SendingEnds
          /\ C13_RevealEnds
          /\ C13_RevealAfterResponse]_vars

\* ---------------------------------------- the DataIngestion view, again
\* the error response carries a human-readable text in its detail field
CarriesDetail(error) ==
    /\ error.response # None
    /\ error.response[1].detail # None
    /\ error.response[1].detail[1] # ""

\* C14: when an ingest request fails, the failure result's message and the
\* error toast both show the detail of the error response when it carries
\* one, and 'Failed to ingest data' otherwise, also when there is no
\* response at all.
C14_FailureShowsDetail ==
    [][\A r \in ingestInflight, error \in IngestErrors :
          IngestReject(r, error) =>
              LET shown == IF CarriesDetail(error) THEN error.response[1].detail[1]
                           ELSE "Failed to ingest data"
              IN /\ result' = Some([message |-> shown, success |-> FALSE])
                 /\ toasts' = Append(toasts, [kind |-> "error", message |-> shown])]_vars

C14_Witness ==
    /\ Len(toasts) = 2
    /\ toasts[1] = [kind |-> "error", message |-> "Embedding provider failed"]
    /\ toasts[2] = [kind |-> "error", message |-> "Failed to ingest data"]
    /\ result = Some([message |-> "Failed to ingest data", success |-> FALSE])

\* C15: when an ingest request succeeds, the result is a success whose
\* message is the server's message when that is non-empty, and otherwise
\* 'Successfully processed N text chunks into embeddings' with N the
\* response's chunks_processed if present, else its chunksCreated if
\* present, else 0; one success toast is added.
C15_SuccessMessage ==
    [][\A r \in ingestInflight, data \in IngestResponses :
          IngestResolve(r, data) =>
              LET N == IF data.chunks_processed # None THEN data.chunks_processed[1]
                       ELSE IF data.chunksCreated # None THEN data.chunksCreated[1]
                       ELSE 0
                  shown == IF data.message # None /\ data.message[1] # "" THEN data.message[1]
                           ELSE "Successfully processed " \o NumStr(N)
                                    \o " text chunks into embeddings"
              IN /\ result' = Some([message |-> shown, success |-> TRUE])
                 /\ toasts' = Append(toasts,
                        [kind |-> "success", message |-> "Data ingested successfully!"])]_vars

C15_Witness ==
    /\ Len(toasts) = 2
    /\ toasts[1].kind = "success" /\ toasts[2].kind = "success"
    /\ result = Some([message |-> "Successfully processed 0 text chunks into embeddings",
                       success |-> TRUE])

\* the requests a step emits, and the ids of those already sent
Emitted == ingestInflight' \ ingestInflight
SentIds == {q.id : q \in ingestInflight}

\* C16: every ingest request the view emits is a POST /api/ingest whose
\* text is non-empty and is the view's text at submit time without its
\* leading and trailing whitespace, and whose persona_id is the persona
\* selected at submit time; no later step, a change of the selected persona
\* included, alters a request already sent.
C16_RequestCarriesTrimmedText ==
    [][/\ \A q \in Emitted :
            /\ q.id \notin SentIds
            /\ q.request.method = "POST" /\ q.request.url = "/api/ingest"
            /\ DOMAIN q.request.data = {"persona_id", "text"}
            /\ q.request.data.text # <<>>
            /\ q.request.data.text = trim(text)
            /\ q.request.data.persona_id = selectedPersona
       /\ \A q \in ingestInflight' : q.id \in SentIds => q \in ingestInflight
       /\ selectedPersona' # selectedPersona => ingestInflight' = ingestInflight]_vars

\* a request in flight for the persona selected when it was sent, after
\* another persona has been selected, and for text typed with a leading space
C16_Witness ==
    \E q \in ingestInflight :
        /\ q.request.data.persona_id = "doug"
        /\ selectedPersona = "default"
        /\ q.request.data.text = <<"a">>
        /\ text = <<" ", "a">>

\* C17: while the view is Processing its result is null, a result shown
\* before the submit having been cleared when the submit was accepted.
C17_NoResultWhileProcessing == isProcessing => result = None

\* Processing for a second submit, the first one's result cleared
C17_Witness ==
    /\ isProcessing
    /\ result = None
    /\ Len(toasts) = 1
    /\ toasts[1] = [kind |-> "error", message |-> "Failed to ingest data"]

\* C18: from the step that accepts a submit to the step that completes its
\* request the view's text does not change, so the text a success clears is
\* the text that was submitted.
C18_TextFrozenWhileProcessing ==
    /\ [](\A q \in ingestInflight : isProcessing /\ q.request.data.text = trim(text))
    /\ [][isProcessing /\ isProcessing' => text' = text]_vars

\* Processing a second submit, of a text typed with a trailing space
C18_Witness ==
    /\ isProcessing
    /\ text = <<"a", " ">>
    /\ Len(toasts) = 1
    /\ \E q \in ingestInflight : q.request.data.text = <<"a">>

\* C19: the Ingest button is enabled exactly when the view is not Processing
\* and the text has a character that is not whitespace, so with submits
\* coming from that button only the validation error 'Please enter some text
\* to ingest' is never shown; the Clear Text button is enabled exactly when
\* the view is not Processing and the text is not empty.
C19_ButtonsEnabled ==
    /\ ~IngestDisabled <=> (~isProcessing /\ \E i \in 1..Len(text) : ~IsWhitespace(text[i]))
    /\ ~ClearTextDisabled <=> (~isProcessing /\ text # <<>>)
    /\ \A i \in 1..Len(toasts) :
            toasts[i] # [kind |-> "error", message |-> "Please enter some text to ingest"]

\* whitespace only, after a submit: Clear Text enabled, Ingest disabled
C19_Witness ==
    /\ text = <<" ", " ">>
    /\ ~isProcessing
    /\ Len(toasts) = 1
    /\ ~ClearTextDisabled
    /\ IngestDisabled

====
